---- MODULE Spec2Model ----
(***************************************************************************)
(* Model of streamlit_model_gallery.py: a Streamlit script that loads a    *)
(* CSV model registry through a cached loader (load_data), renders three   *)
(* sidebar filters, a metrics row and a model explorer.  One script run is *)
(* a pass through the sections of the file, top to bottom; the user, the   *)
(* file system and the cache are the environment.                          *)
(***************************************************************************)
EXTENDS Naturals, Integers, Sequences, FiniteSets, TLC

VARIABLES
    file,         \* the CSV at "model_registry_v2_enterprise_schema.csv"
    cache,        \* the st.cache_data entry of load_data (no arguments: one key)
    reads,        \* pd.read_csv calls since the cache was last empty by restart/clear
    pc,           \* next section of the script to execute, or "idle" between runs
    df,           \* module-level df (line 54)
    widgets,      \* session widget state of the three multiselects
    domain_filter, stage_filter, sla_filter,  \* lines 61, 67, 73
    filtered_df,  \* module-level filtered_df (line 79)
    rendered,     \* elements the current run has put on the page, in order
    outcome,      \* how the current/last run ended
    detail        \* payload of the run's error / explorer (missing list, exception, row)

vars == <<file, cache, reads, pc, df, widgets, domain_filter, stage_filter, sla_filter,
          filtered_df, rendered, outcome, detail>>

(***************************************************************************)
(* Bounds of the model.                                                    *)
(***************************************************************************)
MaxRows == 2        \* rows of a CSV in the row-wide specification
MaxHdrRows == 1     \* rows of a CSV in the header-wide specification
MaxPad == 1         \* leading / trailing blanks of a raw column name
MaxReads == 2       \* reads of the file between two cache resets

(***************************************************************************)
(* Column names.  A raw header name is text with leading blanks, trailing  *)
(* blanks and letter case; `word` is its lowercase image without the outer *)
(* blanks, `caps` says whether it holds an uppercase letter.               *)
(***************************************************************************)
RawName(pre, word, caps, post) == [pre |-> pre, word |-> word, caps |-> caps, post |-> post]
Plain(word) == RawName(0, word, FALSE, 0)

\* a loader that forgets .str.strip()
strip_none(n) == n

\* str.strip(): removes leading and trailing whitespace only
strip(n) == [n EXCEPT !.pre = 0, !.post = 0]
\* str.lower()
lower(n) == [n EXCEPT !.caps = FALSE]

\* line 18: df.columns.str.strip().str.lower()
CleanColumns(cols) == [i \in DOMAIN cols |-> lower(strip(cols[i]))]

\* lines 21-35
ColumnMapKeys ==
    {"model_name", "name", "domain", "model_stage", "type", "owner_team", "contributor",
     "last_retrained_date", "sla_tier", "monitoring_status", "approval_status",
     "inference_endpoint_id", "feature_store_dependency"}

\* a synonym table without the name -> model_name entry
column_map_keeps_name == [k \in ColumnMapKeys |-> k]

column_map ==
    [k \in ColumnMapKeys |->
        CASE k = "name" -> "model_name"
          [] k = "type" -> "model_stage"
          [] k = "contributor" -> "owner_team"
          [] OTHER -> k]

\* lines 41-44, in the order of the list
required_cols ==
    <<"model_name", "domain", "model_stage", "owner_team",
      "sla_tier", "monitoring_status", "approval_status">>

(***************************************************************************)
(* Tables.  A DataFrame is its column labels, its index labels (pandas     *)
(* RangeIndex, from 0) and its rows; a cell is text, the empty text being  *)
(* the missing value (NaN) read_csv makes of an empty field.               *)
(***************************************************************************)
NULL == ""
NoFrame == [columns |-> <<>>, index |-> <<>>, rows |-> <<>>]
EmptyCache == [full |-> FALSE, frame |-> NoFrame]

DataFrame(columns, rows) ==
    [columns |-> columns, index |-> [i \in DOMAIN rows |-> i - 1], rows |-> rows]

Range(s) == {s[i] : i \in DOMAIN s}

\* `name in df.columns`
HasColumn(d, name) == \E i \in DOMAIN d.columns : d.columns[i] = Plain(name)
\* positions of the columns labelled `name`
ColumnsNamed(d, name) == {i \in DOMAIN d.columns : d.columns[i] = Plain(name)}
\* df[name] is a Series only when exactly one column carries the label
IsSeries(d, name) == Cardinality(ColumnsNamed(d, name)) = 1
Series(d, name) ==
    LET c == CHOOSE i \in ColumnsNamed(d, name) : TRUE
    IN  [r \in DOMAIN d.rows |-> d.rows[r][c]]

\* line 15: pd.read_csv
FileMissing == [kind |-> "missing", header |-> <<>>, rows |-> <<>>]
FileGarbled == [kind |-> "garbled", header |-> <<>>, rows |-> <<>>]
Table(header, rows) == [kind |-> "table", header |-> header, rows |-> rows]

\* a reader that drops the rows with a missing value (read_csv(...).dropna())
read_csv_dropna(f) ==
    LET full == {r \in DOMAIN f.rows : \A i \in DOMAIN f.rows[r] : f.rows[r][i] # NULL}
    IN  CASE f.kind = "missing" -> [raised |-> "FileNotFoundError", frame |-> NoFrame]
          [] f.kind = "garbled" -> [raised |-> "ParserError", frame |-> NoFrame]
          [] OTHER -> [raised |-> "",
                       frame |-> IF full = DOMAIN f.rows
                                 THEN DataFrame(f.header, f.rows)
                                 ELSE DataFrame(f.header, <<>>)]

read_csv(f) ==
    CASE f.kind = "missing" -> [raised |-> "FileNotFoundError", frame |-> NoFrame]
      [] f.kind = "garbled" -> [raised |-> "ParserError", frame |-> NoFrame]
      [] OTHER -> [raised |-> "", frame |-> DataFrame(f.header, f.rows)]

\* line 38: df.rename(columns={k: v for k, v in column_map.items() if k in df.columns})
RenameColumn(c) ==
    IF \E k \in ColumnMapKeys : Plain(k) = c
    THEN Plain(column_map[CHOOSE k \in ColumnMapKeys : Plain(k) = c])
    ELSE c

RenameColumns(cols) == [i \in DOMAIN cols |-> RenameColumn(cols[i])]

\* line 46: [c for c in required_cols if c not in df.columns]
RECURSIVE MissingFrom(_, _)
MissingFrom(d, i) ==
    IF i > Len(required_cols) THEN <<>>
    ELSE (IF HasColumn(d, required_cols[i]) THEN <<>> ELSE <<required_cols[i]>>)
         \o MissingFrom(d, i + 1)

\* a validation that reports the first missing column only
missing_first(d) == IF MissingFrom(d, 1) = <<>> THEN <<>> ELSE <<MissingFrom(d, 1)[1]>>

missing(d) == MissingFrom(d, 1)

\* lines 15-51: the body of load_data on file f
load_data_body(f) ==
    LET got == read_csv(f)
        named == [got.frame EXCEPT !.columns = RenameColumns(CleanColumns(got.frame.columns))]
    IN  IF got.raised # ""
        THEN [result |-> "raise", frame |-> NoFrame, error |-> <<got.raised>>]
        ELSE IF missing(named) # <<>>
        THEN [result |-> "stop", frame |-> NoFrame, error |-> missing(named)]
        ELSE [result |-> "return", frame |-> named, error |-> <<>>]

(***************************************************************************)
(* Sidebar filters, lines 61-83.                                           *)
(***************************************************************************)
FilterKeys == <<"domain", "model_stage", "sla_tier">>

\* df[k].dropna().unique(): the distinct non-missing values (as a set; their
\* order of appearance only orders the widget's option list)
\* options taken without .dropna()
Options_keepna(d, k) == Range(Series(d, k))

Options(d, k) == {v \in Range(Series(d, k)) : v # NULL}

\* the mask inverted
isin_not(series, values) == [i \in DOMAIN series |-> series[i] \notin values]

\* Series.isin(values), row by row
isin(series, values) == [i \in DOMAIN series |-> series[i] \in values]

\* the three masks joined with | instead of &
Mask_any(d, domains, stages, tiers) ==
    [i \in DOMAIN d.rows |->
        \/ d.rows[i][CHOOSE c \in ColumnsNamed(d, "domain") : TRUE] \in domains
        \/ d.rows[i][CHOOSE c \in ColumnsNamed(d, "model_stage") : TRUE] \in stages
        \/ d.rows[i][CHOOSE c \in ColumnsNamed(d, "sla_tier") : TRUE] \in tiers]

\* lines 80-82: the conjunction of the three masks
Mask(d, domains, stages, tiers) ==
    [i \in DOMAIN d.rows |->
        /\ isin(Series(d, "domain"), domains)[i]
        /\ isin(Series(d, "model_stage"), stages)[i]
        /\ isin(Series(d, "sla_tier"), tiers)[i]]

\* df[mask]: the rows whose mask is True, in order, with their index labels
RECURSIVE Kept(_, _)
Kept(mask, i) ==
    IF i > Len(mask) THEN <<>>
    ELSE (IF mask[i] THEN <<i>> ELSE <<>>) \o Kept(mask, i + 1)

BoolIndex(d, mask) ==
    LET keep == Kept(mask, 1)
    IN  [columns |-> d.columns,
         index |-> [j \in DOMAIN keep |-> d.index[keep[j]]],
         rows |-> [j \in DOMAIN keep |-> d.rows[keep[j]]]]

\* lines 79-83
Filter(d, domains, stages, tiers) == BoolIndex(d, Mask(d, domains, stages, tiers))

\* st.sidebar.multiselect without a key: the widget keeps the user's value
\* while its options are the ones it was last rendered with; a new option
\* list makes a new widget, which starts from `default` (all options)
Unset == [shown |-> FALSE, opts |-> {}, val |-> {}]
NoWidgets == [k \in Range(FilterKeys) |-> Unset]

multiselect(w, options) ==
    IF w.shown /\ w.opts = options
    THEN w
    ELSE [shown |-> TRUE, opts |-> options, val |-> options]

\* the first of the three filter columns that is not a single column:
\* df[k] is then a DataFrame (or the label is absent) and line 63/69/75 raises
RECURSIVE FirstBadFilter(_, _)
FirstBadFilter(d, i) ==
    IF i > Len(FilterKeys) THEN 0
    ELSE IF IsSeries(d, FilterKeys[i]) THEN FirstBadFilter(d, i + 1) ELSE i

(***************************************************************************)
(* Metrics row, lines 94-99.                                               *)
(***************************************************************************)
\* dtype read_csv infers for a column of text cells: object when it holds
\* text or has no row, float64 when every cell is missing
dtype(series) ==
    IF Len(series) = 0 \/ \E i \in DOMAIN series : series[i] # NULL
    THEN "object" ELSE "float64"

\* str.lower() on the cell values of the model
LowerCell(v) ==
    CASE v = "Prod" -> "prod"
      [] v = "Healthy" -> "healthy"
      [] v = "Banking" -> "banking"
      [] v = "Retail" -> "retail"
      [] v = "Gold" -> "gold"
      [] OTHER -> v

\* len(df[df.<k>.str.lower() == text])
CountLower(d, k, text) ==
    Cardinality({i \in DOMAIN d.rows : LowerCell(Series(d, k)[i]) = text})

\* df.<k>.str is usable: a single column of dtype object
StrAccessorOK(d, k) == IsSeries(d, k) /\ dtype(Series(d, k)) = "object"

\* Series.nunique(): distinct non-missing values
nunique(series) == Cardinality({v \in Range(series) : v # NULL})

(***************************************************************************)
(* The script run.                                                         *)
(***************************************************************************)
NoDetail == [msg |-> "", args |-> <<>>]
Words(cols) == [i \in DOMAIN cols |-> cols[i].word]

\* a run begins: the page is cleared and the module-level names are unbound
BeginRun ==
    /\ pc' = "load"
    /\ df' = NoFrame
    /\ domain_filter' = {} /\ stage_filter' = {} /\ sla_filter' = {}
    /\ filtered_df' = NoFrame
    /\ rendered' = <<>>
    /\ outcome' = "running"
    /\ detail' = NoDetail

\* the user asks for a rerun (R, or any interaction that changes no filter)
Rerun ==
    /\ pc = "idle"
    /\ reads < MaxReads
    /\ BeginRun
    /\ UNCHANGED <<file, cache, reads, widgets>>

\* the user changes one multiselect shown on the page; Streamlit reruns the script
SetFilter ==
    /\ pc = "idle"
    /\ reads < MaxReads
    /\ \E k \in Range(FilterKeys) :
         /\ widgets[k].shown
         /\ \E v \in SUBSET widgets[k].opts :
              /\ v # widgets[k].val
              /\ widgets' = [widgets EXCEPT ![k].val = v]
    /\ BeginRun
    /\ UNCHANGED <<file, cache, reads>>

\* a run that ends before a widget is reached drops that widget's state
EndRun(how, shown, what, kept) ==
    /\ pc' = "idle"
    /\ outcome' = how
    /\ rendered' = rendered \o shown
    /\ detail' = what
    /\ widgets' = kept

\* load_data without @st.cache_data: every run executes the body
RunLoad_uncached ==
    /\ pc = "load"
    /\ LET r == load_data_body(file)
       IN  /\ reads' = reads + 1
           /\ IF r.result = "return"
              THEN /\ cache' = [full |-> TRUE, frame |-> r.frame]
                   /\ df' = r.frame
                   /\ pc' = "filters"
                   /\ UNCHANGED <<widgets, rendered, outcome, detail>>
              ELSE /\ EndRun("stopped", <<"error">>, [msg |-> "", args |-> r.error], NoWidgets)
                   /\ UNCHANGED <<cache, df>>
    /\ UNCHANGED <<file, domain_filter, stage_filter, sla_filter, filtered_df>>

\* line 54: df = load_data(), through @st.cache_data (lines 13-51).  A hit
\* returns the stored frame without running the body; a miss runs the body and
\* stores its return value; st.stop() and exceptions leave the cache empty.
RunLoad ==
    /\ pc = "load"
    /\ IF cache.full
       THEN /\ df' = cache.frame
            /\ pc' = "filters"
            /\ UNCHANGED <<cache, reads, widgets, rendered, outcome, detail>>
       ELSE LET r == load_data_body(file)
            IN  /\ reads' = reads + 1
                /\ CASE r.result = "return" ->
                          /\ cache' = [full |-> TRUE, frame |-> r.frame]
                          /\ df' = r.frame
                          /\ pc' = "filters"
                          /\ UNCHANGED <<widgets, rendered, outcome, detail>>
                     [] r.result = "stop" ->
                          /\ EndRun("stopped", <<"error">>,
                                    [msg |-> "Missing required columns in CSV", args |-> r.error],
                                    NoWidgets)
                          /\ UNCHANGED <<cache, df>>
                     [] OTHER ->
                          /\ EndRun("exception", <<"exception">>,
                                    [msg |-> r.error[1], args |-> <<>>], NoWidgets)
                          /\ UNCHANGED <<cache, df>>
    /\ UNCHANGED <<file, domain_filter, stage_filter, sla_filter, filtered_df>>

\* lines 59-83: the sidebar title, the three multiselects, the filtered frame
RunFilters ==
    /\ pc = "filters"
    /\ LET bad == FirstBadFilter(df, 1)
           w == [k \in Range(FilterKeys) |->
                    IF IsSeries(df, k) THEN multiselect(widgets[k], Options(df, k)) ELSE Unset]
       IN  IF bad # 0
           THEN /\ EndRun("exception",
                          <<"sidebar.title">> \o [i \in 1..(bad - 1) |-> "multiselect"]
                              \o <<"exception">>,
                          [msg |-> "AttributeError", args |-> <<FilterKeys[bad]>>],
                          [k \in Range(FilterKeys) |->
                              IF \E i \in 1..(bad - 1) : FilterKeys[i] = k THEN w[k] ELSE Unset])
                /\ UNCHANGED <<domain_filter, stage_filter, sla_filter, filtered_df>>
           ELSE /\ widgets' = w
                /\ domain_filter' = w["domain"].val
                /\ stage_filter' = w["model_stage"].val
                /\ sla_filter' = w["sla_tier"].val
                /\ filtered_df' = Filter(df, w["domain"].val, w["model_stage"].val,
                                         w["sla_tier"].val)
                /\ rendered' = rendered \o <<"sidebar.title", "multiselect", "multiselect",
                                             "multiselect">>
                /\ pc' = "metrics"
                /\ UNCHANGED <<outcome, detail>>
    /\ UNCHANGED <<file, cache, reads, df>>

\* lines 88-101: title, caption, the four metrics, the divider
RunMetrics ==
    /\ pc = "metrics"
    /\ IF ~StrAccessorOK(df, "model_stage")
       THEN EndRun("exception", <<"title", "caption", "metric", "exception">>,
                   [msg |-> "AttributeError", args |-> <<"model_stage">>], widgets)
       ELSE IF ~StrAccessorOK(df, "monitoring_status")
       THEN EndRun("exception", <<"title", "caption", "metric", "metric", "exception">>,
                   [msg |-> "AttributeError", args |-> <<"monitoring_status">>], widgets)
       ELSE /\ rendered' = rendered \o <<"title", "caption", "metric", "metric", "metric",
                                         "metric", "divider">>
            /\ detail' = [msg |-> "metrics",
                          args |-> <<Len(df.rows),
                                     CountLower(df, "model_stage", "prod"),
                                     CountLower(df, "monitoring_status", "healthy"),
                                     nunique(Series(df, "domain"))>>]
            /\ pc' = "explorer"
            /\ UNCHANGED <<outcome, widgets>>
    /\ UNCHANGED <<file, cache, reads, df, domain_filter, stage_filter, sla_filter,
                   filtered_df>>

\* line 114 and the selectbox: the first option is selected; no option gives None
\* line 117: the rows of filtered_df whose name is the selection, then .iloc[0]
NameMatches(d, selected) ==
    {i \in DOMAIN d.rows : selected # NULL /\ Series(d, "name")[i] = selected}
FirstOption(d) ==
    LET named == {i \in DOMAIN d.rows : Series(d, "name")[i] # NULL}
    IN  IF named = {} THEN NULL
        ELSE Series(d, "name")[CHOOSE i \in named : \A j \in named : i <= j]

\* lines 106-177: the model explorer and everything below it
RunExplorer ==
    /\ pc = "explorer"
    /\ IF ~HasColumn(filtered_df, "name")
       THEN \* lines 108-110
            EndRun("stopped", <<"subheader", "error">>,
                   [msg |-> "'name' column missing", args |-> Words(filtered_df.columns)],
                   widgets)
       ELSE IF ~IsSeries(filtered_df, "name")
       THEN EndRun("exception", <<"subheader", "exception">>,
                   [msg |-> "AttributeError", args |-> <<"name">>], widgets)
       ELSE LET selected_model == FirstOption(filtered_df)
                match == NameMatches(filtered_df, selected_model)
            IN  IF match = {}
                THEN \* line 117: .iloc[0] of an empty frame
                     EndRun("exception", <<"subheader", "selectbox", "exception">>,
                            [msg |-> "IndexError", args |-> <<>>], widgets)
                ELSE IF ~HasColumn(filtered_df, "model_owner_team")
                THEN \* line 124
                     EndRun("exception",
                            <<"subheader", "selectbox", "markdown", "write", "exception">>,
                            [msg |-> "KeyError", args |-> <<"model_owner_team">>], widgets)
                ELSE EndRun("complete",
                            <<"subheader", "selectbox", "detail", "insights", "dataframe",
                              "text_area", "button", "caption">>,
                            [msg |-> "model_row",
                             args |-> filtered_df.rows[CHOOSE i \in match :
                                                          \A j \in match : i <= j]],
                            widgets)
    /\ UNCHANGED <<file, cache, reads, df, domain_filter, stage_filter, sla_filter,
                   filtered_df>>

(***************************************************************************)
(* The environment.                                                        *)
(***************************************************************************)
\* "Clear cache" in the app menu, or st.cache_data.clear()
ClearCache ==
    /\ cache.full
    /\ cache' = EmptyCache
    /\ reads' = 0
    /\ UNCHANGED <<file, pc, df, widgets, domain_filter, stage_filter, sla_filter,
                   filtered_df, rendered, outcome, detail>>

\* the server process is restarted: cache and session are gone
Restart ==
    /\ outcome # "none"
    /\ cache' = EmptyCache
    /\ reads' = 0
    /\ pc' = "idle"
    /\ df' = NoFrame
    /\ widgets' = NoWidgets
    /\ domain_filter' = {} /\ stage_filter' = {} /\ sla_filter' = {}
    /\ filtered_df' = NoFrame
    /\ rendered' = <<>>
    /\ outcome' = "none"
    /\ detail' = NoDetail
    /\ UNCHANGED file

(***************************************************************************)
(* The files the specifications start from.                                *)
(***************************************************************************)
CanonicalHeader == [i \in DOMAIN required_cols |-> Plain(required_cols[i])]

\* one record of a registry with the seven required columns, in their order
Record(name, domain, stage, tier) ==
    <<name, domain, stage, "Risk Team", tier, "Healthy", "Approved">>

\* a cell for a column of the given header name
CellFor(n) ==
    CASE n.word = "domain" -> "Banking"
      [] n.word \in {"model_stage", "type"} -> "Prod"
      [] n.word = "sla_tier" -> "Gold"
      [] n.word = "monitoring_status" -> "Healthy"
      [] OTHER -> "x"
DefaultRow(header) == [i \in DOMAIN header |-> CellFor(header[i])]

\* the header "Name, Domain, Type, Contributor, SLA_Tier, Monitoring_Status,
\* Approval_Status" and one column the schema does not know
MixedHeader ==
    <<RawName(0, "name", TRUE, 0), RawName(0, "domain", TRUE, 0),
      RawName(0, "type", TRUE, 0), RawName(0, "contributor", TRUE, 0),
      RawName(0, "sla_tier", TRUE, 0), RawName(0, "monitoring_status", TRUE, 0),
      RawName(0, "approval_status", TRUE, 0), Plain("notes")>>

NoOwnerHeader ==
    <<Plain("model_name"), Plain("domain"), Plain("model_stage"),
      Plain("sla_tier"), Plain("monitoring_status"), Plain("approval_status")>>

PoolFiles ==
    {FileMissing, FileGarbled,
     Table(CanonicalHeader, <<Record("Credit Risk PD", "Banking", "Prod", "Gold"),
                              Record("Churn", "Retail", "Prod", NULL)>>),
     Table(CanonicalHeader, <<Record("Fraud", "Payments", NULL, "Gold")>>),
     Table(MixedHeader, <<DefaultRow(MixedHeader)>>),
     Table(NoOwnerHeader, <<DefaultRow(NoOwnerHeader)>>)}

\* spellings of one column name: blanks around it, letter case
Spellings(word) ==
    {RawName(p, word, c, q) : p \in 0..MaxPad, q \in 0..MaxPad, c \in BOOLEAN}

\* the names a source may give a required field
SpelledAs(field) ==
    CASE field = "model_name" -> {"model_name", "name"}
      [] field = "model_stage" -> {"model_stage", "type"}
      [] field = "owner_team" -> {"owner_team", "contributor"}
      [] OTHER -> {field}

\* what a header may hold for one required field: nothing, one spelling of one
\* of its names, or two columns that fold onto it
Fine(field) ==
    {<<>>}
    \cup UNION {{<<n>> : n \in Spellings(w)} : w \in SpelledAs(field)}
    \cup {<<Plain(field), RawName(0, w, TRUE, 0)>> : w \in SpelledAs(field)}

Coarse(field) ==
    {<<>>, <<Plain(field)>>, <<Plain(field), RawName(0, field, TRUE, 0)>>}
    \cup {<<RawName(0, w, TRUE, 0)>> : w \in SpelledAs(field)}

\* columns outside the required seven
Extras ==
    {<<>>, <<Plain("notes")>>, <<RawName(0, "last_retrained_date", TRUE, 0)>>,
     <<Plain("name space")>>}

RECURSIVE Concat(_, _)
Concat(groups, i) ==
    IF i > Len(required_cols) THEN <<>>
    ELSE groups[required_cols[i]] \o Concat(groups, i + 1)

BaseGroups == [f \in Range(required_cols) |-> <<Plain(f)>>]

Headers ==
    UNION {{Concat([BaseGroups EXCEPT ![f] = g], 1) \o x : g \in Fine(f), x \in Extras}
              : f \in Range(required_cols)}
    \cup UNION {UNION {{Concat([BaseGroups EXCEPT ![f] = g, ![f2] = g2], 1)
                          : g \in Coarse(f), g2 \in Coarse(f2)}
                      : f2 \in Range(required_cols)}
                  : f \in Range(required_cols)}

HeaderFiles ==
    {Table(h, [i \in 1..n |-> DefaultRow(h)]) : h \in Headers, n \in 0..MaxHdrRows}

RowChoices ==
    {Record("Credit Risk PD", d, s, t) :
        d \in {NULL, "Banking", "Retail"}, s \in {NULL, "Prod"}, t \in {NULL, "Gold"}}

RowFiles ==
    {Table(CanonicalHeader, rows) : rows \in UNION {[1..n -> RowChoices] : n \in 0..MaxRows}}

(***************************************************************************)
(* Specifications.                                                         *)
(***************************************************************************)
Start(files) ==
    /\ file \in files
    /\ cache = EmptyCache
    /\ reads = 0
    /\ pc = "idle"
    /\ df = NoFrame
    /\ widgets = NoWidgets
    /\ domain_filter = {} /\ stage_filter = {} /\ sla_filter = {}
    /\ filtered_df = NoFrame
    /\ rendered = <<>>
    /\ outcome = "none"
    /\ detail = NoDetail

\* the file is replaced on disk.  A run reads the file at one point only
\* (RunLoad), so a replacement during a run is a replacement just before or
\* just after it: replacements are taken between runs.
EditFile ==
    /\ pc = "idle"
    /\ file' \in PoolFiles \ {file}
    /\ UNCHANGED <<cache, reads, pc, df, widgets, domain_filter, stage_filter, sla_filter,
                   filtered_df, rendered, outcome, detail>>

Session ==
    \/ Rerun
    \/ SetFilter
    \/ RunLoad
    \/ RunFilters
    \/ RunMetrics
    \/ RunExplorer
    \/ ClearCache
    \/ Restart

Init == Start(PoolFiles)
Next == Session \/ EditFile
Spec == Init /\ [][Next]_vars

\* the file is always a table, replaced on disk by another table
TablePool == {f \in PoolFiles : f.kind = "table"}
EditTable ==
    /\ pc = "idle"
    /\ file' \in TablePool \ {file}
    /\ UNCHANGED <<cache, reads, pc, df, widgets, domain_filter, stage_filter, sla_filter,
                   filtered_df, rendered, outcome, detail>>
InitTables == Start(TablePool)
SpecTables == InitTables /\ [][Session \/ EditTable]_vars

\* one file for the whole behaviour, over every header of Headers
InitHeaders == Start(HeaderFiles)
SpecHeaders == InitHeaders /\ [][Session]_vars

\* one file for the whole behaviour, over every table of RowFiles
InitRows == Start(RowFiles)
SpecRows == InitRows /\ [][Session]_vars

(***************************************************************************)
(* Vocabulary of the properties.                                           *)
(***************************************************************************)
\* load_data has finished in the current (or last) run
LoadDone == outcome # "none" /\ pc # "load"
\* ... by returning a frame
LoadReturned == LoadDone /\ df.columns # <<>>
\* the filtered view of the current (or last) run exists
Filtered == filtered_df.columns # <<>>
\* the run went as far as the Model Explorer section
ReachedExplorer == \E i \in DOMAIN rendered : rendered[i] = "subheader"

\* a header name stripped, lowercased and sent through the synonym table
Canonical(n) ==
    CASE n.word = "name" -> "model_name"
      [] n.word = "type" -> "model_stage"
      [] n.word = "contributor" -> "owner_team"
      [] OTHER -> n.word
Provided(f) == {Canonical(f.header[i]) : i \in DOMAIN f.header}
HasAllSeven(f) == f.kind = "table" /\ Range(required_cols) \subseteq Provided(f)

\* the first column of the file that stands for the field
FirstSpelled(f, field) ==
    CHOOSE i \in DOMAIN f.header :
        /\ Canonical(f.header[i]) = field
        /\ \A j \in DOMAIN f.header : Canonical(f.header[j]) = field => i <= j

\* the fields of a ModelRecord (the seven required and the three optional)
SchemaFields ==
    Range(required_cols)
    \cup {"last_retrained_date", "inference_endpoint_id", "feature_store_dependency"}

\* the position of the (first) column of frame d labelled name
ColumnOf(d, name) ==
    CHOOSE i \in DOMAIN d.columns :
        /\ d.columns[i] = Plain(name)
        /\ \A j \in 1..(i - 1) : d.columns[j] # Plain(name)
\* the cell of row r of frame d in that column
Cell(d, r, name) == d.rows[r][ColumnOf(d, name)]

(***************************************************************************)
(* C1 (as stated): a table whose normalized and synonym-mapped header      *)
(* holds all seven required fields is loaded with the same number of rows  *)
(* and with canonical field names only.                                    *)
(***************************************************************************)
C1_CanonicalNamesOnly ==
    (LoadDone /\ HasAllSeven(file)) =>
        /\ LoadReturned
        /\ Len(df.rows) = Len(file.rows)
        /\ \A i \in DOMAIN df.columns : \E c \in SchemaFields : df.columns[i] = Plain(c)

(***************************************************************************)
(* C1 (amended): such a table is loaded with the same number of rows and   *)
(* the same cells; each column carries its header name stripped,           *)
(* lowercased and synonym-mapped, so the recognized columns carry their    *)
(* canonical names and the unrecognized ones their normalized names.       *)
(***************************************************************************)
C1_LoadNormalizesHeader ==
    (LoadDone /\ HasAllSeven(file)) =>
        /\ LoadReturned
        /\ Len(df.rows) = Len(file.rows)
        /\ \A r \in DOMAIN df.rows : df.rows[r] = file.rows[r]
        /\ Len(df.columns) = Len(file.header)
        /\ \A i \in DOMAIN df.columns : df.columns[i] = Plain(Canonical(file.header[i]))
        /\ \A c \in Range(required_cols) : HasColumn(df, c)

\* a header with a padded, capitalized synonym has been loaded, rows and all
C1_Witness ==
    /\ LoadReturned
    /\ Len(df.rows) > 0
    /\ \E i \in DOMAIN file.header :
         /\ file.header[i].word \in {"name", "type", "contributor"}
         /\ file.header[i].caps
         /\ file.header[i].pre > 0
         /\ file.header[i].post > 0

(***************************************************************************)
(* C2: a table whose normalized and synonym-mapped header lacks a required *)
(* field makes load_data report exactly the missing canonical names, and   *)
(* the run halts there: the error is all the page shows.                   *)
(***************************************************************************)
C2_MissingColumnsHalt ==
    (LoadDone /\ file.kind = "table" /\ ~HasAllSeven(file)) =>
        /\ outcome = "stopped"
        /\ pc = "idle"
        /\ detail.msg = "Missing required columns in CSV"
        /\ Range(detail.args) = Range(required_cols) \ Provided(file)
        /\ Len(detail.args) = Cardinality(Range(detail.args))
        /\ rendered = <<"error">>
        /\ df = NoFrame
        /\ filtered_df = NoFrame
        /\ ~cache.full

\* a header without owner_team / contributor has been refused
C2_Witness ==
    /\ LoadDone
    /\ file.kind = "table"
    /\ outcome = "stopped"
    /\ detail.args = <<"owner_team">>

\* two fields missing at once
C2_WitnessTwo ==
    /\ LoadDone
    /\ outcome = "stopped"
    /\ Len(detail.args) = 2

(***************************************************************************)
(* C3: when the file is missing or cannot be parsed, load_data returns the *)
(* built-in demo Registry of 3 records and the run shows no error.         *)
(* Stated on the step that runs load_data's body on an unreadable file.    *)
(***************************************************************************)
C3_UnreadableFallsBackToDemo ==
    [][(pc = "load" /\ ~cache.full /\ file.kind # "table" /\ pc' # "load" /\ outcome' # "none")
          => (/\ Len(df'.rows) = 3
              /\ pc' = "filters"
              /\ outcome' # "exception")]_vars

(***************************************************************************)
(* C4: the filtered view is the sub-sequence of the Registry, in order, of *)
(* exactly the records whose domain, model_stage and sla_tier are each in  *)
(* the allowed set; an empty allowed set gives an empty view.              *)
(***************************************************************************)
Passing(d, domains, stages, tiers) ==
    LET cd == ColumnOf(d, "domain")
        cs == ColumnOf(d, "model_stage")
        ct == ColumnOf(d, "sla_tier")
    IN  {r \in DOMAIN d.rows :
            d.rows[r][cd] \in domains /\ d.rows[r][cs] \in stages /\ d.rows[r][ct] \in tiers}

IsViewOf(v, d, domains, stages, tiers) ==
    LET pass == Passing(d, domains, stages, tiers)
    IN  /\ v.columns = d.columns
        /\ Len(v.rows) = Cardinality(pass)
        /\ Len(v.index) = Len(v.rows)
        /\ \A j \in DOMAIN v.rows :
             /\ v.index[j] + 1 \in pass
             /\ v.rows[j] = d.rows[v.index[j] + 1]
        /\ \A j, k \in DOMAIN v.rows : j < k => v.index[j] < v.index[k]
        /\ (domains = {} \/ stages = {} \/ tiers = {}) => v.rows = <<>>

\* every value a cell of the three filter columns takes in RowFiles, NULL included
DomainValues == {NULL, "Banking", "Retail"}
StageValues == {NULL, "Prod"}
TierValues == {NULL, "Gold"}

\* the view of the run, under every selection the widgets reach; and, once per
\* loaded Registry (in the first run, before its filters), the filter under
\* every triple of allowed sets
C4_FilterIsConjunctiveSubsequence ==
    /\ Filtered => IsViewOf(filtered_df, df, domain_filter, stage_filter, sla_filter)
    /\ (pc = "filters" /\ widgets = NoWidgets /\ \A k \in Range(FilterKeys) : IsSeries(df, k)) =>
          \A D \in SUBSET DomainValues, S \in SUBSET (StageValues \ {NULL}),
             T \in SUBSET (TierValues \ {NULL}) :
              IsViewOf(Filter(df, D, S, T), df, D, S, T)

\* a view that keeps one record and drops another that fails one criterion only
C4_Witness ==
    /\ Filtered
    /\ Len(filtered_df.rows) = 1
    /\ \E r \in DOMAIN df.rows :
         /\ Cell(df, r, "domain") \in domain_filter
         /\ Cell(df, r, "model_stage") \in stage_filter
         /\ Cell(df, r, "sla_tier") \notin sla_filter
         /\ sla_filter # {}

(***************************************************************************)
(* C5: the single-record lookup never ends in a fatal error and never      *)
(* returns a record outside the filtered view: a run that gets to the      *)
(* Model Explorer either shows a record of the current view or signals     *)
(* NotFound.                                                               *)
(***************************************************************************)
C5_LookupNeverFatal ==
    (pc = "idle" /\ ReachedExplorer) =>
        \/ /\ outcome = "complete"
           /\ detail.msg = "model_row"
           /\ detail.args \in Range(filtered_df.rows)
        \/ detail.msg = "NotFound"

(***************************************************************************)
(* C6 (as stated): after load_data succeeds every record has a non-empty   *)
(* value in each of the seven required fields.                             *)
(***************************************************************************)
C6_RequiredValuesNonEmpty ==
    LoadReturned =>
        \A r \in DOMAIN df.rows : \A c \in Range(required_cols) : Cell(df, r, c) # NULL

(***************************************************************************)
(* C6 (amended): after load_data succeeds every record has a value,        *)
(* possibly empty, for each of the seven required fields: load_data checks *)
(* the columns only, and a table with all seven columns is loaded with its *)
(* cells as they are, empty ones included.                                 *)
(***************************************************************************)
C6_EmptyValuesAreLoaded ==
    (LoadDone /\ HasAllSeven(file)) =>
        /\ LoadReturned
        /\ Len(df.rows) = Len(file.rows)
        /\ \A c \in Range(required_cols) :
             LET to == ColumnOf(df, c)
                 from == FirstSpelled(file, c)
             IN  \A r \in DOMAIN df.rows : df.rows[r][to] = file.rows[r][from]

\* a loaded Registry with an empty required value
C6_Witness ==
    /\ LoadReturned
    /\ \E r \in DOMAIN df.rows : \E c \in Range(required_cols) : Cell(df, r, c) = NULL

(***************************************************************************)
(* C7 (as stated): within one process session, between two cache resets,   *)
(* the file is read at most once.                                          *)
(***************************************************************************)
C7_ReadAtMostOnce == reads <= 1

(***************************************************************************)
(* C7 (amended): once load_data has returned, the file is not read again   *)
(* and every later call returns the cached Registry, whatever the file     *)
(* holds by then, until a restart or a cache clear; a load that fails is   *)
(* not cached and the next run reads the file again.                       *)
(***************************************************************************)
C7_CachedUntilReset ==
    [][/\ (cache.full /\ cache'.full) => (cache' = cache /\ reads' = reads)
       /\ (cache.full /\ pc = "load" /\ pc' = "filters") => df' = cache.frame
       /\ (cache'.full /\ ~cache.full) => (reads' = reads + 1 /\ df' = cache'.frame)]_vars

\* a run served from the cache after the file on disk was replaced
C7_Witness ==
    /\ cache.full
    /\ file.kind = "table"
    /\ pc = "filters"
    /\ df = cache.frame
    /\ reads = 1
    /\ load_data_body(file).frame # cache.frame

(***************************************************************************)
(* C8: filtering is monotonic: larger allowed sets keep every record of    *)
(* the view of the smaller ones.                                           *)
(***************************************************************************)
C8_FilterMonotonic ==
    pc = "metrics" =>
        \A D \in SUBSET DomainValues, S \in SUBSET StageValues, T \in SUBSET TierValues :
            (domain_filter \subseteq D /\ stage_filter \subseteq S /\ sla_filter \subseteq T) =>
                LET big == Filter(df, D, S, T)
                IN  \A j \in DOMAIN filtered_df.rows :
                        \E k \in DOMAIN big.rows :
                            /\ big.index[k] = filtered_df.index[j]
                            /\ big.rows[k] = filtered_df.rows[j]

\* a non-empty view that a larger selection strictly extends
C8_Witness ==
    /\ pc = "metrics"
    /\ filtered_df.rows # <<>>
    /\ \E D \in SUBSET DomainValues :
         /\ domain_filter \subseteq D
         /\ Len(Filter(df, D, stage_filter, sla_filter).rows) > Len(filtered_df.rows)

(***************************************************************************)
(* C9 (as stated): every run in which load_data succeeds shows the         *)
(* "'name' column missing" error and stops there.                          *)
(***************************************************************************)
C9_AlwaysNameError ==
    (LoadReturned /\ pc = "idle") =>
        /\ outcome = "stopped"
        /\ detail.msg = "'name' column missing"

(***************************************************************************)
(* C9 (amended): a loaded table has no column named 'name', so every run   *)
(* that gets to the Model Explorer shows the "'name' column missing" error *)
(* and stops there, and no run reaches the selectbox, the lookup, the      *)
(* detail panel, the comparison table or the feedback section; a run may   *)
(* end earlier, with an exception in the filters or in the metrics row.    *)
(***************************************************************************)
C9_ExplorerNeverPassesGuard ==
    LoadReturned =>
        /\ ~HasColumn(df, "name")
        /\ outcome # "complete"
        /\ \A i \in DOMAIN rendered :
             rendered[i] \notin {"selectbox", "markdown", "write", "detail", "insights",
                                 "dataframe", "text_area", "button"}
        /\ ReachedExplorer =>
             /\ pc = "idle"
             /\ outcome = "stopped"
             /\ detail.msg = "'name' column missing"
             /\ detail.args = Words(df.columns)
             /\ rendered[Len(rendered)] = "error"
        /\ (pc = "idle" /\ ~ReachedExplorer) =>
             (outcome = "exception" /\ detail.msg = "AttributeError")

\* a file with a column spelled Name, loaded, stopped at the guard
C9_Witness ==
    /\ LoadReturned
    /\ ReachedExplorer
    /\ outcome = "stopped"
    /\ \E i \in DOMAIN file.header : file.header[i].word = "name"

(***************************************************************************)
(* C10: each filter offers the distinct non-null values of its column, so  *)
(* a record with a null domain, model_stage or sla_tier is in no filtered  *)
(* view; with every offered option selected the view is the whole Registry *)
(* if and only if no record has a null in those three columns.             *)
(***************************************************************************)
NonNull(d, name) ==
    LET c == ColumnOf(d, name) IN {d.rows[r][c] : r \in DOMAIN d.rows} \ {NULL}
HasNull(d) ==
    \E k \in Range(FilterKeys) :
        LET c == ColumnOf(d, k) IN \E r \in DOMAIN d.rows : d.rows[r][c] = NULL
AtDefaults ==
    /\ domain_filter = NonNull(df, "domain")
    /\ stage_filter = NonNull(df, "model_stage")
    /\ sla_filter = NonNull(df, "sla_tier")

C10_NullRecordsNeverShown ==
    Filtered =>
        /\ \A k \in Range(FilterKeys) :
             /\ widgets[k].shown
             /\ widgets[k].opts = NonNull(df, k)
             /\ widgets[k].val \subseteq widgets[k].opts
        /\ domain_filter = widgets["domain"].val
        /\ stage_filter = widgets["model_stage"].val
        /\ sla_filter = widgets["sla_tier"].val
        /\ \A k \in Range(FilterKeys) :
             LET c == ColumnOf(filtered_df, k)
             IN  \A j \in DOMAIN filtered_df.rows : filtered_df.rows[j][c] # NULL
        /\ AtDefaults => (filtered_df.rows = df.rows <=> ~HasNull(df))

\* all options selected, and a record with a null is left out of the view
C10_Witness ==
    /\ Filtered
    /\ AtDefaults
    /\ HasNull(df)
    /\ filtered_df.rows # <<>>
    /\ Len(filtered_df.rows) < Len(df.rows)

====
